---------------------------- MODULE Spec2Model ----------------------------
(***************************************************************************)
(* Model of the NameAnimation repository: the font-fit solver              *)
(* (clampFontSizeToScreenPadding), the grid partition of the assemble      *)
(* animation (#createCSSTextParts) and the play / settle / resize          *)
(* lifecycle of TextAssembleAnimation and TextMoveAnimation.               *)
(*                                                                         *)
(* Units.  Font sizes are kept in tenths of their unit (a token            *)
(* [n |-> 25, unit |-> "rem"] is the CSS token "2.5rem").  Every measured  *)
(* length is kept in hundredths of a pixel ("centi-px"), so that the       *)
(* products the code forms (viewport * (100 - padding) / 100, size * glyph *)
(* ratio) are exact integers.  Quotients by the grid side are kept as      *)
(* fractions [n, d].  Arithmetic is exact: IEEE rounding of the            *)
(* JavaScript numbers is not modelled.                                     *)
(***************************************************************************)
EXTENDS Integers, Sequences, FiniteSets, TLC

VARIABLES
    viewport,   \* document.documentElement.clientWidth / clientHeight, in px
    asm,        \* the TextAssembleAnimation object and its DOM elements
    move,       \* the TextMoveAnimation object and its DOM element
    rules,      \* the CSS rules inserted through Stylesheet_.add, in document order
    timers,     \* pending setTimeout callbacks of play(): their deadlines, in ms
    now,        \* the event loop's clock, in ms
    lastOp,     \* history: the operation that produced the current state
    probe,      \* input and output of a call of a pure function
    other       \* a second TextAssembleAnimation of the same document

vars == <<viewport, asm, move, rules, timers, now, lastOp, probe, other>>

-----------------------------------------------------------------------------
(* Bounds of the model and the environment's parameters.                    *)

\* Pixels of 1rem: the font size of the root element (the browser default).
RootFontSizePx == 16

\* fontBoundingBoxAscent + fontBoundingBoxDescent of the font, in tenths of an em.
FontHeightTenthEm == 12

\* play() is called within this many seconds; the clock then runs on until
\* the pending timeouts have fired.
MaxSeconds == 2

\* At most this many settle callbacks are pending at a time.
MaxTimers == 2

\* Math.sqrt is computed to this many units per 1 (exact on perfect squares).
SqrtScale == 100

MsPerSecond == 1000

\* "Zalgo" stands for a text whose glyphs reach beyond the font's bounding
\* box (stacked combining marks): its actual height exceeds the font height.
Texts == {"Jonas", "Fehrenbacher", "Zalgo", ""}

\* Advance width of a text in tenths of an em (canvas measureText(text).width).
TextWidthTenthEm(text) ==
    CASE text = "Jonas"        -> 25
      [] text = "Fehrenbacher" -> 55
      [] text = "Zalgo"        -> 20
      [] text = "A"            -> 7
      [] OTHER                 -> 0

\* actualBoundingBoxAscent + actualBoundingBoxDescent in tenths of an em.
ActualHeightTenthEm(text) ==
    CASE text = "Jonas"        -> 9
      [] text = "Fehrenbacher" -> 8
      [] text = "Zalgo"        -> 14
      [] text = "A"            -> 7
      [] OTHER                 -> 0

Viewports ==
    { [x |-> 1920, y |-> 1080], [x |-> 1024, y |-> 768],
      [x |-> 320,  y |-> 480],  [x |-> 100,  y |-> 40] }

-----------------------------------------------------------------------------
(* Vec2 and the fractions used for the grid.                                *)

Vec2(x, y) == [x |-> x, y |-> y]

RECURSIVE GCD(_, _)
GCD(a, b) == IF b = 0 THEN a ELSE GCD(b, a % b)

Abs(i) == IF i < 0 THEN -i ELSE i

\* The fraction n/d (d > 0) in lowest terms.
Frac(n, d) ==
    LET g == GCD(Abs(n), d)
    IN  [n |-> n \div g, d |-> d \div g]

FracOfInt(i) == [n |-> i, d |-> 1]
FracMul(a, b) == Frac(a.n * b.n, a.d * b.d)
\* a / b for b > 0
FracDiv(a, b) == Frac(a.n * b.d, a.d * b.n)
FracAdd(a, b) == Frac(a.n * b.d + b.n * a.d, a.d * b.d)
FracSub(a, b) == Frac(a.n * b.d - b.n * a.d, a.d * b.d)
FracEq(a, b) == a.n * b.d = b.n * a.d
FracLe(a, b) == a.n * b.d <= b.n * a.d
FracLt(a, b) == a.n * b.d < b.n * a.d
\* Math.floor
FracFloor(a) == a.n \div a.d
\* The JavaScript remainder a % b for a >= 0 and b > 0.
FracMod(a, b) == FracSub(a, FracMul(b, FracOfInt(FracFloor(FracDiv(a, b)))))

-----------------------------------------------------------------------------
(* CSS font strings: "weight size family", kept as the list of the tokens   *)
(* that split(" ") yields.  Token 2 is the size.                            *)

Px(tenths) == [n |-> tenths, unit |-> "px"]
Rem(tenths) == [n |-> tenths, unit |-> "rem"]

getCSSFontSize(cssFont) == cssFont[2]

setCSSFontSize(cssFont, cssFontSize) == [cssFont EXCEPT ![2] = cssFontSize]

\* The used size of a size token, in tenths of a pixel.
PxTenths(size) ==
    IF size.unit = "rem" THEN size.n * RootFontSizePx ELSE size.n

\* getComputedStyle(...).fontSize: always a px token.
ComputedFontSize(size) == Px(PxTenths(size))

\* canvas measureText: width, actual height and font height, in centi-px.
getTextWidth(text, font) == PxTenths(getCSSFontSize(font)) * TextWidthTenthEm(text)

getTextHeight(text, font) == PxTenths(getCSSFontSize(font)) * ActualHeightTenthEm(text)

getFontHeight(font) == PxTenths(getCSSFontSize(font)) * FontHeightTenthEm

getHTMLElementFont(size) == <<"400", ComputedFontSize(size), "serif">>

-----------------------------------------------------------------------------
(* clampFontSizeToScreenPadding                                             *)

\* windowSize * (100 - minScreenPadding_inPC) / 100, in centi-px.
AvailableWindowSize(win, minScreenPadding_inPC) ==
    Vec2(win.x * (100 - minScreenPadding_inPC),
         win.y * (100 - minScreenPadding_inPC))

\* [2] the pre-check: the text at the handed font fits (<=) on both axes.
FitsBase(text, font, avail) ==
    /\ getTextWidth(text, font) <= avail.x
    /\ getFontHeight(font) <= avail.y

\* The text measured at `n` rem, as the loop body measures it.
SizeAtRem(text, font, n) ==
    LET newFont == setCSSFontSize(font, Rem(n * 10))
    IN  Vec2(getTextWidth(text, newFont), getFontHeight(newFont))

\* [3] the while loop: `cur` is currentFontSize_inRem, `next` is nextTextSize.
RECURSIVE ClampSearch(_, _, _, _, _)
ClampSearch(text, font, avail, cur, next) ==
    IF next.x < avail.x /\ next.y < avail.y
    THEN ClampSearch(text, font, avail, cur + 1, SizeAtRem(text, font, cur + 1))
    ELSE cur

\* The value the code returns after the loop: currentFontSize_inRem + "rem".
ClampLoopResult(text, font, avail) ==
    Rem(ClampSearch(text, font, avail, 0, Vec2(0, 0)) * 10)

\* Mutant of clampFontSizeToScreenPadding: the pre-check [2] is left out.
clampWithoutPreCheck(text, font, minScreenPadding_inPC, win) ==
    ClampLoopResult(text, font, AvailableWindowSize(win, minScreenPadding_inPC))

clampFontSizeToScreenPadding(text, font, minScreenPadding_inPC, win) ==
    LET avail == AvailableWindowSize(win, minScreenPadding_inPC)
    IN  IF FitsBase(text, font, avail)
        THEN getCSSFontSize(font)
        ELSE ClampLoopResult(text, font, avail)

\* Math.floor(width of "A") * Math.floor(actual height of "A"), in px * px.
PixelCount(font) ==
    (getTextWidth("A", font) \div 100) * (getTextHeight("A", font) \div 100)

cmpCSSFont(a, b) ==
    IF PixelCount(a) > PixelCount(b) THEN -1
    ELSE IF PixelCount(b) > PixelCount(a) THEN 1
    ELSE 0

-----------------------------------------------------------------------------
(* DOM elements.  An element is [exists, fontSize, display, parent, threw]: *)
(* the inline style.fontSize and style.display, where it is attached, and   *)
(* whether an assertion about it has thrown.                                *)

NoSize == [n |-> 0, unit |-> ""]

NullElement ==
    [exists |-> FALSE, fontSize |-> NoSize, display |-> "", parent |-> "none",
     threw |-> FALSE]

\* document.createElement("div"): detached, no inline style.
NewElement == [NullElement EXCEPT !.exists = TRUE]

\* Where a caller may append an element: below a node that is in the document
\* (htmlApp) or below one that is not (htmlName before it is appended).
CallerParents == {"inDocument", "notInDocument"}

\* document.body.contains(htmlElement)
bodyContains(el) == el.exists /\ el.parent \in {"body", "inDocument"}

\* Mutant of dom_addHiddenElement: the element is appended to the body
\* without being hidden.
dom_addElementShown(el) ==
    IF el.exists
    THEN [el EXCEPT !.parent = "body"]
    ELSE el

dom_addHiddenElement(el) ==
    IF el.exists
    THEN [el EXCEPT !.display = "none", !.parent = "body"]
    ELSE el

\* assert(htmlElement?.style.display == "none") throws; otherwise the element
\* gets the handed display value and leaves document.body.
dom_removeHiddenElement(el, cssDisplayValue) ==
    IF ~(el.exists /\ el.display = "none")
    THEN [el EXCEPT !.threw = TRUE]
    ELSE [el EXCEPT !.display = cssDisplayValue, !.parent = "none"]

-----------------------------------------------------------------------------
(* The CSS animation of an element, as the browser runs it.  Styles are     *)
(* recomputed after a handler has returned, never in the middle of it: an   *)
(* animation starts when an element is found with an animation it did not   *)
(* have at the last recomputation, and goes on undisturbed when it is found *)
(* with the same animation again.                                           *)

NotAnimating == [running |-> FALSE, since |-> 0]

\* The element el with the class list classes is rendered with the animation
\* that the class animClass names.
AnimationRuns(el, classes, animClass) ==
    /\ bodyContains(el)
    /\ el.display # "none"
    /\ animClass \in classes
    /\ "hide" \notin classes

\* The animation after the recomputation at time t: anim is the animation the
\* element had, runs tells whether the element has one now.
ObserveAnimation(runs, anim, t) ==
    IF ~runs THEN NotAnimating
    ELSE IF anim.running THEN anim
    ELSE [running |-> TRUE, since |-> t]

-----------------------------------------------------------------------------
(* Stylesheet_: the rules of the document in insertion order.               *)

NoAnim == <<"", 0>>

NoPose ==
    [opacity |-> "", rotateX |-> 0, rotateY |-> 0, rotateZ |-> 0,
     translateZ |-> 0, translateXPercent |-> 0, translateYPercent |-> 0]

\* A rule with no declarations; sel is the selector (or "@keyframes"), nth
\* the argument of :nth-child (0 when the selector has none).
EmptyRule(sel, nth) ==
    [sel |-> sel, nth |-> nth, color |-> "", fontSize |-> NoSize,
     position |-> "", opacity |-> "", display |-> "", clip |-> <<>>,
     animName |-> NoAnim, duration |-> 0, delay |-> 0,
     from |-> NoPose, to |-> NoPose]

\* Stylesheet_.add: insertRule(value, cssRules.length)
StylesheetAdd(sheet, newRules) == sheet \o newRules

\* The last rule of the sheet for a selector, or the empty rule.
LastRule(sheet, sel, nth) ==
    LET hits == {k \in 1..Len(sheet) : sheet[k].sel = sel /\ sheet[k].nth = nth}
    IN  IF hits = {} THEN EmptyRule(sel, nth)
        ELSE sheet[CHOOSE k \in hits : \A j \in hits : j <= k]

\* The font size in effect on an element: its inline style, else the rule of
\* its class.
EffectiveFontSize(el, sheet, sel) ==
    IF el.fontSize # NoSize THEN el.fontSize ELSE LastRule(sheet, sel, 0).fontSize

-----------------------------------------------------------------------------
(* TextAssembleAnimation.#createCSSTextParts                                *)

ISqrt(n) == CHOOSE r \in 0..n : r * r <= n /\ (r + 1) * (r + 1) > n

\* new Vec2(Math.sqrt(textCount), Math.sqrt(textCount)).x: the grid side.
\* Math.sqrt of a negative number is NaN, which the Vec2 constructor
\* (x ? x : 0) turns into 0.
GridSide(textCount) ==
    IF textCount < 0 THEN FracOfInt(0)
    ELSE Frac(ISqrt(textCount * SqrtScale * SqrtScale), SqrtScale)

\* Number(size.replace(/\D/g, "")): the digits of the size token read as one
\* number ("480px" is 480, "153.6px" is 1536).
DigitsOnly(size) == IF size.n % 10 = 0 THEN size.n \div 10 ELSE size.n

\* The text height used for the grid, in centi-px: the bigger of the number
\* taken from the size token and getFontHeight.
GridTextHeight(fontStr) ==
    LET fontHeight == DigitsOnly(getCSSFontSize(fontStr)) * 100
        textHeight == getFontHeight(fontStr)
    IN  IF fontHeight > textHeight THEN fontHeight ELSE textHeight

\* Mutant of PartCurrent: column and row exchanged (column-major order).
PartCurrentColumnMajor(i, partCount) ==
    Vec2(FracOfInt(FracFloor(FracDiv(FracOfInt(i), partCount.x))),
         FracMod(FracOfInt(i), partCount.x))

\* current: the column and the row of part i.
PartCurrent(i, partCount) ==
    Vec2(FracMod(FracOfInt(i), partCount.x),
         FracOfInt(FracFloor(FracDiv(FracOfInt(i), partCount.x))))

PartSize(textWidth, textHeight, partCount) ==
    Vec2(FracDiv(FracOfInt(textWidth), partCount.x),
         FracDiv(FracOfInt(textHeight), partCount.y))

\* Mutant of PartPos: the column index is used for both coordinates.
PartPosFromColumnOnly(current, partSize) ==
    Vec2(FracMul(current.x, partSize.x), FracMul(current.x, partSize.y))

PartPos(current, partSize) ==
    Vec2(FracMul(current.x, partSize.x), FracMul(current.y, partSize.y))

\* polygon(left-top, right-top, right-bottom, left-bottom)
ClipPolygon(partPos, partSize) ==
    << Vec2(partPos.x, partPos.y),
       Vec2(FracAdd(partPos.x, partSize.x), partPos.y),
       Vec2(FracAdd(partPos.x, partSize.x), FracAdd(partPos.y, partSize.y)),
       Vec2(partPos.x, FracAdd(partPos.y, partSize.y)) >>

PartSelector == ".textAssembleAnimationWrapper .textAssembleAnimation:nth-child"

\* The rule added for part i (0-based) of the loop.
TextPartRule(i, textWidth, textHeight, partCount, duration_inS, startDelay_inS) ==
    LET partSize == PartSize(textWidth, textHeight, partCount)
        partPos  == PartPos(PartCurrent(i, partCount), partSize)
    IN  [EmptyRule(PartSelector, i + 1) EXCEPT
            !.clip     = ClipPolygon(partPos, partSize),
            !.animName = <<"move", i + 1>>,
            !.duration = duration_inS,
            !.delay    = startDelay_inS]

\* The rules #createCSSTextParts adds, for the font string of the container.
createCSSTextParts(text, fontStr, textCount, duration_inS, startDelay_inS) ==
    LET partCount  == Vec2(GridSide(textCount), GridSide(textCount))
        textWidth  == getTextWidth(text, fontStr)
        textHeight == GridTextHeight(fontStr)
    IN  [k \in 1..textCount |->
            TextPartRule(k - 1, textWidth, textHeight, partCount,
                         duration_inS, startDelay_inS)]

-----------------------------------------------------------------------------
(* random and TextAssembleAnimation.#createCSSKeyframes                     *)

\* Math.random() yields k / RandomSteps for some k in 0..RandomSteps-1.
RandomSteps == 8

\* A stream of Math.random: its k-th draw (k >= 0), a fraction in [0, 1).
RandomStreams == {"low", "high", "mixed"}

MathRandom(stream, k) ==
    CASE stream = "low"  -> Frac(0, RandomSteps)
      [] stream = "high" -> Frac(RandomSteps - 1, RandomSteps)
      [] OTHER           -> Frac((3 * k + 1) % RandomSteps, RandomSteps)

\* Mutant of random: Math.round in place of Math.floor.
randomRounded(min, max, r) ==
    FracFloor(FracAdd(FracAdd(FracMul(r, FracOfInt(max - min + 1)), FracOfInt(min)),
                      Frac(1, 2)))

\* random(min, max) for integer min and max, with r the draw of Math.random.
random(min, max, r) ==
    FracFloor(FracAdd(FracMul(r, FracOfInt(max - min + 1)), FracOfInt(min)))

RestPose ==
    [opacity |-> "1", rotateX |-> 0, rotateY |-> 0, rotateZ |-> 0,
     translateZ |-> 0, translateXPercent |-> 0, translateYPercent |-> 0]

\* The @keyframes rule of part i (0-based): four draws, in source order.
KeyframesRule(i, stream) ==
    [EmptyRule("@keyframes", 0) EXCEPT
        !.animName = <<"move", i + 1>>,
        !.from = [opacity |-> "0",
                  rotateX    |-> random(-500, 1000, MathRandom(stream, 4 * i)),
                  rotateY    |-> random(-500, 1000, MathRandom(stream, 4 * i + 1)),
                  rotateZ    |-> random(-500, 1000, MathRandom(stream, 4 * i + 2)),
                  translateZ |-> random(-5000, 10000, MathRandom(stream, 4 * i + 3)),
                  translateXPercent |-> 0, translateYPercent |-> 0],
        !.to = RestPose]

\* Mutant of createCSSKeyframes: the loop runs twice, so every part gets a
\* second @keyframes rule.
createCSSKeyframesTwice(textCount, stream) ==
    [k \in 1..textCount |-> KeyframesRule(k - 1, stream)]
        \o [k \in 1..textCount |-> KeyframesRule(k - 1, stream)]

createCSSKeyframes(textCount, stream) ==
    [k \in 1..textCount |-> KeyframesRule(k - 1, stream)]

-----------------------------------------------------------------------------
(* #resize of both controllers                                              *)

\* Mutant of ResetFontSize: the element keeps the size of the last resize.
ResetFontSizeSkipped(el, originalCSSFontSize) == el

\* "Useful if the screen got smaller ...": the element is put back to the
\* original font size before it is measured.
ResetFontSize(el, originalCSSFontSize) ==
    IF el.exists THEN [el EXCEPT !.fontSize = originalCSSFontSize] ELSE el

\* The font size is replaced only when cmpCSSFont tells the two fonts apart.
ApplyOptimalFont(el, cssFont, optimalCSSFont) ==
    IF el.exists /\ cmpCSSFont(cssFont, optimalCSSFont) # 0
    THEN [el EXCEPT !.fontSize = getCSSFontSize(optimalCSSFont)]
    ELSE el

\* The body shared by TextAssembleAnimation.#resize and
\* TextMoveAnimation.#resize, on the element el whose class rule is sel.
ResizeElement(el, sel, text, originalCSSFontSize, minScreenPadding_inPC, sheet, win) ==
    LET isDOMElement   == bodyContains(el)
        e1             == ResetFontSize(el, originalCSSFontSize)
        e2             == IF ~isDOMElement THEN dom_addHiddenElement(e1) ELSE e1
        cssFont        == getHTMLElementFont(EffectiveFontSize(e2, sheet, sel))
        optimalCSSFont ==
            setCSSFontSize(cssFont,
                clampFontSizeToScreenPadding(text, cssFont, minScreenPadding_inPC, win))
        e3             == ApplyOptimalFont(e2, cssFont, optimalCSSFont)
    IN  IF ~isDOMElement THEN dom_removeHiddenElement(e3, "flex") ELSE e3

WrapperSelector == ".textAssembleAnimationWrapper"
MoveTextSelector == ".moveAnimationText"

\* Mutant of AsmResize: the resize also plays the animation again.
AsmResizeAndReplay(a, sheet, win) ==
    [a EXCEPT !.container =
        ResizeElement(a.container, WrapperSelector, a.text, a.originalCSSFontSize,
                      a.minScreenPadding_inPC, sheet, win),
              !.parts = [k \in DOMAIN a.parts |->
                            (a.parts[k] \cup {"textAssembleAnimation"}) \ {"hide"}]]

AsmResize(a, sheet, win) ==
    [a EXCEPT !.container =
        ResizeElement(a.container, WrapperSelector, a.text, a.originalCSSFontSize,
                      a.minScreenPadding_inPC, sheet, win)]

MoveResize(m, sheet, win) ==
    [m EXCEPT !.div =
        ResizeElement(m.div, MoveTextSelector, m.text, m.originalCSSFontSize,
                      m.minScreenPadding_inPC, sheet, win)]

-----------------------------------------------------------------------------
(* TextAssembleAnimation                                                    *)

\* The object after its constructor.
AsmConstructed ==
    [inited |-> FALSE, text |-> "", textCount |-> 1, duration_inS |-> 5,
     startDelay_inS |-> 0, color |-> "black", originalCSSFontSize |-> Rem(10),
     minScreenPadding_inPC |-> 0,
     container |-> NullElement,   \* #htmlTextContainer
     parts |-> <<>>,              \* the class lists of the "text" children
     ghost |-> NullElement,       \* #htmlTextDiv, the last child
     ghostOpacity |-> "",         \* #htmlTextDiv.style.opacity
     partAnim |-> <<>>,           \* the animation each part is rendered with
     children |-> <<>>]           \* the container's children, in order

\* The parts of the animation a after the style recomputation at time t.
RenderAsm(a, t) ==
    [a EXCEPT !.partAnim =
        [k \in DOMAIN a.parts |->
            ObserveAnimation(
                AnimationRuns(a.container, a.parts[k], "textAssembleAnimation"),
                IF k \in DOMAIN a.partAnim THEN a.partAnim[k] ELSE NotAnimating,
                t)]]

\* Mutant of #createHTML: the first part is shown (config.js line 421 active).
createHTMLFirstShown(a) ==
    [a EXCEPT !.container = NewElement,
              !.parts = [k \in 1..a.textCount |->
                           IF k = 1 THEN {"text"} ELSE {"text", "hide"}],
              !.ghost = NewElement,
              !.ghostOpacity = "1",
              !.children = [k \in 1..a.textCount |-> "part"] \o <<"ghost">>]

\* Mutant of #createHTML: the ghost is appended before the parts.
createHTMLGhostFirst(a) ==
    [a EXCEPT !.container = NewElement,
              !.parts = [k \in 1..a.textCount |-> {"text", "hide"}],
              !.ghost = NewElement,
              !.ghostOpacity = "1",
              !.children = <<"ghost">> \o [k \in 1..a.textCount |-> "part"]]

\* #createHTML: the container, textCount hidden parts appended one after the
\* other, and then the ghost.
createHTML(a) ==
    [a EXCEPT !.container = NewElement,
              !.parts = [k \in 1..a.textCount |-> {"text", "hide"}],
              !.ghost = NewElement,
              !.ghostOpacity = "1",
              !.children = [k \in 1..a.textCount |-> "part"] \o <<"ghost">>]

\* [2] of init: the four fixed rules.
AsmBaseRules(a) ==
    << [EmptyRule(WrapperSelector, 0) EXCEPT
            !.position = "relative", !.color = a.color,
            !.fontSize = a.originalCSSFontSize],
       [EmptyRule(".textAssembleAnimationWrapper .text", 0) EXCEPT
            !.position = "absolute"],
       [EmptyRule(".textAssembleAnimationWrapper .textAssembleAnimation", 0) EXCEPT
            !.opacity = "0"],
       [EmptyRule(".textAssembleAnimationWrapper .hide", 0) EXCEPT
            !.display = "none"] >>

\* The container's font string as #createCSSTextParts reads it, between
\* dom_addHiddenElement and dom_removeHiddenElement.
PartsFontStr(a, sheet) ==
    getHTMLElementFont(
        EffectiveFontSize(dom_addHiddenElement(a.container), sheet, WrapperSelector))

\* init(config): the fields, #createHTML, the rules, #resize,
\* #createCSSTextParts, #createCSSKeyframes and the resize listener.
AsmInitResult(config, stream, sheet, win) ==
    LET a1 == createHTML(
                [AsmConstructed EXCEPT
                    !.text = config.text, !.color = config.color,
                    !.originalCSSFontSize = config.cssFontSize,
                    !.minScreenPadding_inPC = config.minScreenPadding_inPC,
                    !.textCount = config.textPartCount,
                    !.duration_inS = config.duration_inS,
                    !.startDelay_inS = config.startDelay_inS])
        s1 == StylesheetAdd(sheet, AsmBaseRules(a1))
        a2 == AsmResize(a1, s1, win)
        s2 == StylesheetAdd(s1,
                createCSSTextParts(a2.text, PartsFontStr(a2, s1), a2.textCount,
                                   a2.duration_inS, a2.startDelay_inS))
        a3 == [a2 EXCEPT !.container =
                dom_removeHiddenElement(dom_addHiddenElement(a2.container), "flex")]
        s3 == StylesheetAdd(s2, createCSSKeyframes(a3.textCount, stream))
    IN  [asm |-> [a3 EXCEPT !.inited = TRUE], rules |-> s3]

\* Mutant of PlayParts: only the first part is animated and shown.
PlayPartsFirstOnly(parts) ==
    [k \in DOMAIN parts |->
        IF k = 1 THEN (parts[k] \cup {"textAssembleAnimation"}) \ {"hide"}
        ELSE parts[k]]

\* play(), [1]: every part gets the animation class and loses "hide".
PlayParts(parts) ==
    [k \in DOMAIN parts |-> (parts[k] \cup {"textAssembleAnimation"}) \ {"hide"}]

\* Mutant of SettleParts: the animation class is removed, "hide" is not added.
SettlePartsWithoutHide(parts) ==
    [k \in DOMAIN parts |-> parts[k] \ {"textAssembleAnimation"}]

\* The timeout callback of play(): every part loses the animation class and
\* gets "hide".
SettleParts(parts) ==
    [k \in DOMAIN parts |-> (parts[k] \ {"textAssembleAnimation"}) \cup {"hide"}]

\* delay: Milliseconds = (startDelay_inS + duration_inS) * 1000
SettleDelay(a) == (a.startDelay_inS + a.duration_inS) * MsPerSecond

-----------------------------------------------------------------------------
(* TextMoveAnimation                                                        *)

MoveConstructed ==
    [inited |-> FALSE, text |-> "", duration_inS |-> 5, startDelay_inS |-> 0,
     color |-> "black", originalCSSFontSize |-> Rem(10),
     minScreenPadding_inPC |-> 0, direction |-> "left",
     div |-> NullElement,         \* #htmlTextDiv
     classes |-> {},              \* its class list
     anim |-> NotAnimating]       \* the animation it is rendered with

\* The element of the animation m after the style recomputation at time t.
RenderMove(m, t) ==
    [m EXCEPT !.anim =
        ObserveAnimation(AnimationRuns(m.div, m.classes, "moveAnimation"), m.anim, t)]

\* Mutant of MoveRules: the start offset is -200% whatever the direction.
MoveRulesFromLeftOnly(m) ==
    << [EmptyRule(MoveTextSelector, 0) EXCEPT
            !.color = m.color, !.fontSize = m.originalCSSFontSize],
       [EmptyRule(".moveAnimation", 0) EXCEPT
            !.opacity = "0", !.animName = <<"move", 0>>,
            !.duration = m.duration_inS, !.delay = m.startDelay_inS],
       [EmptyRule("@keyframes", 0) EXCEPT
            !.animName = <<"move", 0>>,
            !.from = [NoPose EXCEPT !.opacity = "0", !.translateXPercent = -200],
            !.to = RestPose] >>

MoveRules(m) ==
    << [EmptyRule(MoveTextSelector, 0) EXCEPT
            !.color = m.color, !.fontSize = m.originalCSSFontSize],
       [EmptyRule(".moveAnimation", 0) EXCEPT
            !.opacity = "0", !.animName = <<"move", 0>>,
            !.duration = m.duration_inS, !.delay = m.startDelay_inS],
       [EmptyRule("@keyframes", 0) EXCEPT
            !.animName = <<"move", 0>>,
            !.from = [NoPose EXCEPT
                        !.opacity = "0",
                        !.translateXPercent =
                            IF m.direction = "left" THEN -200 ELSE 200],
            !.to = RestPose] >>

MoveInitResult(config, sheet, win) ==
    LET m1 == [MoveConstructed EXCEPT
                    !.text = config.text, !.color = config.color,
                    !.originalCSSFontSize = config.cssFontSize,
                    !.minScreenPadding_inPC = config.minScreenPadding_inPC,
                    !.duration_inS = config.duration_inS,
                    !.startDelay_inS = config.startDelay_inS,
                    !.direction = config.direction,
                    !.div = NewElement,
                    !.classes = {"moveAnimationText"}]
        s1 == StylesheetAdd(sheet, MoveRules(m1))
        m2 == MoveResize(m1, s1, win)
    IN  [move |-> [m2 EXCEPT !.inited = TRUE], rules |-> s1]

-----------------------------------------------------------------------------
(* The configurations and viewports the callers use.                        *)

\* TextAssembleAnimationConfig values (Name.init builds them from config.js),
\* each with the stream of Math.random the keyframes draw from.
AsmConfig(text, cssFontSize, padding, partCount, duration, startDelay, stream) ==
    [text |-> text, color |-> "red", cssFontSize |-> cssFontSize,
     minScreenPadding_inPC |-> padding, textPartCount |-> partCount,
     duration_inS |-> duration, startDelay_inS |-> startDelay, stream |-> stream]

AsmConfigs ==
    { AsmConfig("Jonas", Rem(300), 20, 4, 1, 1, "mixed"),
      AsmConfig("Jonas", Rem(96),  20, 9, 1, 1, "high"),
      AsmConfig("Jonas", Rem(25),  0,  2, 1, 0, "low"),
      AsmConfig("Jonas", Rem(100), 20, 0, 1, 0, "low") }

MoveConfig(text, cssFontSize, padding, duration, startDelay, direction) ==
    [text |-> text, color |-> "rgba(150, 150, 150)", cssFontSize |-> cssFontSize,
     minScreenPadding_inPC |-> padding, duration_inS |-> duration,
     startDelay_inS |-> startDelay, direction |-> direction]

MoveConfigs ==
    { MoveConfig("Fehrenbacher", Rem(100), 40, 3, 11, "left"),
      MoveConfig("Fehrenbacher", Rem(25),  40, 3, 11, "right") }

\* The viewports of the controllers' specification.
AppViewports == { [x |-> 1920, y |-> 1080], [x |-> 320, y |-> 480] }

NoProbe ==
    [op |-> "none", text |-> "", font |-> getHTMLElementFont(NoSize),
     padding |-> 0, result |-> NoSize]

-----------------------------------------------------------------------------
(* The controllers' specification.                                          *)

\* A second TextAssembleAnimation: the object, the rules of its own
\* Stylesheet_ and its pending timeouts.  Its <style> element is the last one
\* of the document.
OtherConstructed == [obj |-> AsmConstructed, sheet |-> <<>>, timers |-> <<>>]

\* The rules of all <style> elements, in document order.
DocumentRules == rules \o other.sheet

Init ==
    /\ viewport \in AppViewports
    /\ asm = AsmConstructed
    /\ move = MoveConstructed
    /\ rules = <<>>
    /\ timers = <<>>
    /\ now = 0
    /\ lastOp = "construct"
    /\ probe = NoProbe
    /\ other = OtherConstructed

\* play(), [1]: the parts and the ghost of the animation a.
PlayedAsm(a) ==
    [a EXCEPT !.parts = IF a.container.exists THEN PlayParts(a.parts) ELSE @,
              !.ghostOpacity = IF a.ghost.exists THEN "0" ELSE @]

\* The timeout callback of play() on the animation a.
SettledAsm(a) ==
    IF a.container.exists
    THEN [a EXCEPT !.parts = SettleParts(a.parts),
                   !.ghostOpacity = IF a.ghost.exists THEN "1" ELSE @]
    ELSE a

\* TextAssembleAnimation.init(config)
AsmInit(config) ==
    /\ ~asm.inited
    /\ LET r == AsmInitResult(config, config.stream, rules, viewport)
       IN  /\ asm' = RenderAsm(r.asm, now)
           /\ rules' = r.rules
    /\ lastOp' = "asmInit"
    /\ UNCHANGED <<viewport, move, timers, now, probe, other>>

\* Mutant of AsmPlay: play() without its part [2], the timeout.
AsmPlayWithoutTimeout ==
    /\ asm.inited
    /\ now < MaxSeconds * MsPerSecond
    /\ Len(timers) < MaxTimers
    /\ asm' = RenderAsm(PlayedAsm(asm), now)
    /\ lastOp' = "asmPlay"
    /\ UNCHANGED <<viewport, move, rules, timers, now, probe, other>>

\* Mutant of AsmPlay: play() cancels the timeouts of earlier calls
\* (clearTimeout) before it sets its own.
AsmPlayCancelsEarlier ==
    /\ asm.inited
    /\ now < MaxSeconds * MsPerSecond
    /\ Len(timers) < MaxTimers
    /\ asm' = RenderAsm(PlayedAsm(asm), now)
    /\ timers' = <<now + SettleDelay(asm)>>
    /\ lastOp' = "asmPlay"
    /\ UNCHANGED <<viewport, move, rules, now, probe, other>>

\* TextAssembleAnimation.play()
AsmPlay ==
    /\ asm.inited
    /\ now < MaxSeconds * MsPerSecond
    /\ Len(timers) < MaxTimers
    /\ asm' = RenderAsm(PlayedAsm(asm), now)
    /\ timers' = Append(timers, now + SettleDelay(asm))
    /\ lastOp' = "asmPlay"
    /\ UNCHANGED <<viewport, move, rules, now, probe, other>>

\* The callback play() handed to setTimeout, run when its delay has passed.
AsmSettle ==
    /\ timers # <<>>
    /\ Head(timers) <= now
    /\ asm' = RenderAsm(SettledAsm(asm), now)
    /\ timers' = Tail(timers)
    /\ lastOp' = "asmSettle"
    /\ UNCHANGED <<viewport, move, rules, now, probe, other>>

\* TextMoveAnimation.init(config)
MoveInit(config) ==
    /\ ~move.inited
    /\ LET r == MoveInitResult(config, rules, viewport)
       IN  /\ move' = RenderMove(r.move, now)
           /\ rules' = r.rules
    /\ lastOp' = "moveInit"
    /\ UNCHANGED <<viewport, asm, timers, now, probe, other>>

\* TextMoveAnimation.play()
MovePlay ==
    /\ move.inited
    /\ move' = RenderMove(
                 [move EXCEPT
                    !.classes = IF move.div.exists
                                THEN (@ \ {"moveAnimation"}) \cup {"moveAnimation"}
                                ELSE @],
                 now)
    /\ lastOp' = "movePlay"
    /\ UNCHANGED <<viewport, asm, rules, timers, now, probe, other>>

\* Mutant of the resize event: the listeners are heard from construction on,
\* so that #resize runs on a controller before its init.
ResizeEventBeforeInit(win) ==
    /\ viewport' = win
    /\ asm' = RenderAsm(AsmResize(asm, DocumentRules, win), now)
    /\ move' = RenderMove(MoveResize(move, DocumentRules, win), now)
    /\ other' = IF other.obj.inited
                THEN [other EXCEPT
                        !.obj = RenderAsm(AsmResize(other.obj, DocumentRules, win), now)]
                ELSE other
    /\ lastOp' = "resize"
    /\ UNCHANGED <<rules, timers, now, probe>>

\* The window's resize event: it runs #resize of every controller whose init
\* has registered its listener, and of no other.
ResizeEvent(win) ==
    /\ viewport' = win
    /\ asm' = IF asm.inited
              THEN RenderAsm(AsmResize(asm, DocumentRules, win), now)
              ELSE asm
    /\ move' = IF move.inited
               THEN RenderMove(MoveResize(move, DocumentRules, win), now)
               ELSE move
    /\ other' = IF other.obj.inited
                THEN [other EXCEPT
                        !.obj = RenderAsm(AsmResize(other.obj, DocumentRules, win), now)]
                ELSE other
    /\ lastOp' = "resize"
    /\ UNCHANGED <<rules, timers, now, probe>>

\* parent.appendChild(animation.getHTML()) by the caller (Name.init).
AsmAppend(parent) ==
    /\ asm.container.exists
    /\ asm.container.parent # parent
    /\ asm' = RenderAsm([asm EXCEPT !.container.parent = parent], now)
    /\ lastOp' = "append"
    /\ UNCHANGED <<viewport, move, rules, timers, now, probe, other>>

MoveAppend(parent) ==
    /\ move.div.exists
    /\ move.div.parent # parent
    /\ move' = RenderMove([move EXCEPT !.div.parent = parent], now)
    /\ lastOp' = "append"
    /\ UNCHANGED <<viewport, asm, rules, timers, now, probe, other>>

\* A second passes, unless a timeout is due.
Tick ==
    /\ ~(/\ now >= MaxSeconds * MsPerSecond
         /\ timers = <<>>
         /\ other.timers = <<>>)
    /\ \A k \in 1..Len(timers) : timers[k] > now
    /\ \A k \in 1..Len(other.timers) : other.timers[k] > now
    /\ now' = now + MsPerSecond
    /\ lastOp' = "tick"
    /\ UNCHANGED <<viewport, asm, move, rules, timers, probe, other>>

Next ==
    \/ \E config \in AsmConfigs : AsmInit(config)
    \/ AsmPlay
    \/ AsmSettle
    \/ \E config \in MoveConfigs : MoveInit(config)
    \/ MovePlay
    \/ \E win \in AppViewports : ResizeEvent(win)
    \/ \E parent \in CallerParents : AsmAppend(parent)
    \/ \E parent \in CallerParents : MoveAppend(parent)
    \/ Tick

Spec == Init /\ [][Next]_vars

\* The event loop runs a timeout callback once its delay has passed, and
\* time passes.
SpecLive == Spec /\ WF_vars(AsmSettle) /\ WF_vars(Tick)

-----------------------------------------------------------------------------
(* Two TextAssembleAnimation objects (and the TextMoveAnimation) in one      *)
(* document.                                                                *)

\* The configurations of the first TextAssembleAnimation: those with a grid.
InstanceConfigs == {config \in AsmConfigs : config.textPartCount \in {4, 9}}

\* The configurations of the second TextAssembleAnimation.
OtherConfigs ==
    { AsmConfig("Jonas", Rem(96), 20, 9, 2, 0, "high"),
      AsmConfig("Fehrenbacher", Rem(100), 40, 4, 1, 0, "low") }

\* init(config) of the second TextAssembleAnimation: its rules go to its own
\* sheet.
OtherInit(config) ==
    /\ ~other.obj.inited
    /\ LET r == AsmInitResult(config, config.stream, DocumentRules, viewport)
       IN  other' = [other EXCEPT
                       !.obj = RenderAsm(r.asm, now),
                       !.sheet = SubSeq(r.rules, Len(DocumentRules) + 1, Len(r.rules))]
    /\ lastOp' = "otherInit"
    /\ UNCHANGED <<viewport, asm, move, rules, timers, now, probe>>

\* play() of the second TextAssembleAnimation
OtherPlay ==
    /\ other.obj.inited
    /\ now < MaxSeconds * MsPerSecond
    /\ Len(other.timers) < MaxTimers
    /\ other' = [other EXCEPT
                   !.obj = RenderAsm(PlayedAsm(other.obj), now),
                   !.timers = Append(@, now + SettleDelay(other.obj))]
    /\ lastOp' = "otherPlay"
    /\ UNCHANGED <<viewport, asm, move, rules, timers, now, probe>>

\* The timeout callback of the second TextAssembleAnimation's play()
OtherSettle ==
    /\ other.timers # <<>>
    /\ Head(other.timers) <= now
    /\ other' = [other EXCEPT
                   !.obj = RenderAsm(SettledAsm(other.obj), now),
                   !.timers = Tail(@)]
    /\ lastOp' = "otherSettle"
    /\ UNCHANGED <<viewport, asm, move, rules, timers, now, probe>>

InstancesNext ==
    \/ \E config \in InstanceConfigs : AsmInit(config)
    \/ AsmPlay
    \/ AsmSettle
    \/ \E config \in OtherConfigs : OtherInit(config)
    \/ OtherPlay
    \/ OtherSettle
    \/ \E config \in MoveConfigs : MoveInit(config)
    \/ MovePlay
    \/ \E win \in AppViewports : ResizeEvent(win)
    \/ Tick

SpecInstances == Init /\ [][InstancesNext]_vars

-----------------------------------------------------------------------------
(* The font-fit solver on its own: one call per behaviour.                  *)

FitSizes == {Rem(300), Rem(100), Rem(96), Rem(25), Rem(10), Rem(5)}

FitPaddings == {0, 20, 40, 100, 120}

FitViewports == Viewports \cup {[x |-> 0, y |-> 0]}

FitInit ==
    /\ viewport \in FitViewports
    /\ probe \in [op : {"input"}, text : Texts,
                  font : {getHTMLElementFont(sz) : sz \in FitSizes},
                  padding : FitPaddings, result : {NoSize}]
    /\ asm = AsmConstructed
    /\ move = MoveConstructed
    /\ rules = <<>>
    /\ timers = <<>>
    /\ now = 0
    /\ lastOp = "construct"
    /\ other = OtherConstructed

\* clampFontSizeToScreenPadding(text, font, minScreenPadding_inPC)
FitClamp ==
    /\ probe.op = "input"
    /\ probe' = [probe EXCEPT
                   !.op = "clamp",
                   !.result = clampFontSizeToScreenPadding(
                                  probe.text, probe.font, probe.padding, viewport)]
    /\ lastOp' = "clamp"
    /\ UNCHANGED <<viewport, asm, move, rules, timers, now, other>>

FitNext == FitClamp

SpecFit == FitInit /\ [][FitNext]_vars

-----------------------------------------------------------------------------
(* The font-fit solver step by step: one action per pass of its loop.       *)

\* The search stops at this size at the latest (no input of the model takes
\* the loop that far).
MaxRem == 64

\* Mutant of LoopContinues: one axis below the available area is enough.
LoopContinuesOnEitherAxis(next, avail) ==
    ~(next.x >= avail.x /\ next.y >= avail.y)

\* The condition of the while loop.
LoopContinues(next, avail) ==
    next.x < avail.x /\ next.y < avail.y

LoopInit ==
    /\ viewport \in FitViewports
    /\ probe \in [op : {"input"}, text : Texts,
                  font : {getHTMLElementFont(sz) : sz \in FitSizes},
                  padding : FitPaddings, result : {NoSize},
                  cur : {0}, next : {Vec2(0, 0)}]
    /\ asm = AsmConstructed
    /\ move = MoveConstructed
    /\ rules = <<>>
    /\ timers = <<>>
    /\ now = 0
    /\ lastOp = "construct"
    /\ other = OtherConstructed

\* [1], [2] and the declarations of [3]: the call returns the base size, or
\* reaches the loop with currentFontSize_inRem = 0 and nextTextSize = (0, 0).
LoopEnter ==
    /\ probe.op = "input"
    /\ probe' = IF FitsBase(probe.text, probe.font,
                            AvailableWindowSize(viewport, probe.padding))
                THEN [probe EXCEPT !.op = "clamp",
                                   !.result = getCSSFontSize(probe.font)]
                ELSE [probe EXCEPT !.op = "loop", !.cur = 0, !.next = Vec2(0, 0)]
    /\ lastOp' = "enter"
    /\ UNCHANGED <<viewport, asm, move, rules, timers, now, other>>

\* One pass of the loop body.
LoopStep ==
    /\ probe.op = "loop"
    /\ probe.cur < MaxRem
    /\ LoopContinues(probe.next, AvailableWindowSize(viewport, probe.padding))
    /\ probe' = [probe EXCEPT
                   !.cur = @ + 1,
                   !.next = SizeAtRem(probe.text, probe.font, probe.cur + 1)]
    /\ lastOp' = "step"
    /\ UNCHANGED <<viewport, asm, move, rules, timers, now, other>>

\* The loop condition fails: return currentFontSize_inRem + "rem".
LoopExit ==
    /\ probe.op = "loop"
    /\ ~LoopContinues(probe.next, AvailableWindowSize(viewport, probe.padding))
    /\ probe' = [probe EXCEPT !.op = "clamp", !.result = Rem(probe.cur * 10)]
    /\ lastOp' = "clamp"
    /\ UNCHANGED <<viewport, asm, move, rules, timers, now, other>>

LoopNext == LoopEnter \/ LoopStep \/ LoopExit

\* The call runs on: a pass that can be taken is taken.
SpecFitLoop == LoopInit /\ [][LoopNext]_vars /\ WF_vars(LoopNext)

-----------------------------------------------------------------------------
(* random(min, max) on its own: one call per behaviour.                     *)

\* The ranges random is called with: those of #createCSSKeyframes and small
\* ones, in which a draw can reach both ends.
RandomRanges ==
    { <<-500, 1000>>, <<-5000, 10000>>, <<0, 0>>, <<0, 1>>, <<0, 7>>, <<1, 6>>,
      <<-3, 3>>, <<-8, -1>>, <<5, 5>> }

\* Every value Math.random can return.
MathRandomValues == {Frac(k, RandomSteps) : k \in 0..(RandomSteps - 1)}

RandomInit ==
    /\ probe \in {[op |-> "draw", min |-> range[1], max |-> range[2],
                   r |-> r, result |-> 0] :
                     range \in RandomRanges, r \in MathRandomValues}
    /\ viewport = [x |-> 1920, y |-> 1080]
    /\ asm = AsmConstructed
    /\ move = MoveConstructed
    /\ rules = <<>>
    /\ timers = <<>>
    /\ now = 0
    /\ lastOp = "construct"
    /\ other = OtherConstructed

\* random(min, max)
RandomCall ==
    /\ probe.op = "draw"
    /\ probe' = [probe EXCEPT
                   !.op = "random",
                   !.result = random(probe.min, probe.max, probe.r)]
    /\ lastOp' = "random"
    /\ UNCHANGED <<viewport, asm, move, rules, timers, now, other>>

RandomNext == RandomCall

SpecRandom == RandomInit /\ [][RandomNext]_vars

-----------------------------------------------------------------------------
(* Properties.                                                              *)

\* The font string of the assemble animation's container / the move
\* animation's element, as getHTMLElementFont reports it in the current state.
AsmFont == getHTMLElementFont(EffectiveFontSize(asm.container, rules, WrapperSelector))
MoveFont == getHTMLElementFont(EffectiveFontSize(move.div, rules, MoveTextSelector))

AsmAvail == AvailableWindowSize(viewport, asm.minScreenPadding_inPC)
MoveAvail == AvailableWindowSize(viewport, move.minScreenPadding_inPC)

\* Width and height of the text at the font are at most the available area.
FitsWithin(text, font, avail) ==
    /\ getTextWidth(text, font) <= avail.x
    /\ getFontHeight(font) <= avail.y

\* The available area is positive and the text at 1rem fits in it.
SizeOneFits(text, font, avail) ==
    /\ avail.x > 0
    /\ avail.y > 0
    /\ SizeAtRem(text, font, 1).x <= avail.x
    /\ SizeAtRem(text, font, 1).y <= avail.y

\* C1: after init and after every resize event the text, measured at the font
\* size left on the element, fits inside the available area (both
\* controllers), whenever the area is positive and size 1 fits.
C1_TextFitsAfterResize ==
    /\ (asm.inited /\ SizeOneFits(asm.text, AsmFont, AsmAvail))
          => FitsWithin(asm.text, AsmFont, AsmAvail)
    /\ (move.inited /\ SizeOneFits(move.text, MoveFont, MoveAvail))
          => FitsWithin(move.text, MoveFont, MoveAvail)

\* Width and height of the text at n rem are strictly below the available area.
StrictlyFitsAtRem(text, font, avail, n) ==
    /\ SizeAtRem(text, font, n).x < avail.x
    /\ SizeAtRem(text, font, n).y < avail.y

ProbeAvail == AvailableWindowSize(viewport, probe.padding)

\* C2: when the base font does not fit, the solver returns the last fitting
\* integer size n of the upward search: n fits strictly and n + 1 does not.
\* (Stated for the viewports in which the size 1 fits strictly, so that a
\* last fitting size exists.)
C2_ReturnsLastFittingSize ==
    (/\ probe.op = "clamp"
     /\ ~FitsBase(probe.text, probe.font, ProbeAvail)
     /\ StrictlyFitsAtRem(probe.text, probe.font, ProbeAvail, 1))
        => /\ probe.result.unit = "rem"
           /\ StrictlyFitsAtRem(probe.text, probe.font, ProbeAvail,
                                probe.result.n \div 10)
           /\ ~StrictlyFitsAtRem(probe.text, probe.font, ProbeAvail,
                                 probe.result.n \div 10 + 1)

\* C3: the size the solver returns is never larger than the base size handed
\* in (both in pixels).
C3_NeverUpscales ==
    probe.op = "clamp"
        => PxTenths(probe.result) <= PxTenths(getCSSFontSize(probe.font))

\* The inline font size an element has after init ran #resize at viewport w0
\* and one resize event followed at viewport w.
FontSizeAfterInitThenResize(sel, obj, w0, w) ==
    ResizeElement(
        ResizeElement(NewElement, sel, obj.text, obj.originalCSSFontSize,
                      obj.minScreenPadding_inPC, rules, w0),
        sel, obj.text, obj.originalCSSFontSize, obj.minScreenPadding_inPC,
        rules, w).fontSize

\* C4: the font size on the element depends only on the configuration and the
\* current viewport: it is the size one resize at this viewport yields right
\* after an init at any viewport, whatever resize events came before.
C4_ResizeHasNoDrift ==
    /\ asm.inited =>
          \A w0 \in AppViewports :
              asm.container.fontSize =
                  FontSizeAfterInitThenResize(WrapperSelector, asm, w0, viewport)
    /\ move.inited =>
          \A w0 \in AppViewports :
              move.div.fontSize =
                  FontSizeAfterInitThenResize(MoveTextSelector, move, w0, viewport)

SmallViewport == [x |-> 320, y |-> 480]
LargeViewport == [x |-> 1920, y |-> 1080]

\* C4 witness: the animation was initialised in the small viewport (its clip
\* rules are those of the shrunk font), and a resize event in the large
\* viewport has put the element back to its original size.
C4_Witness ==
    /\ lastOp = "resize"
    /\ asm.inited
    /\ asm.textCount = 4
    /\ viewport = LargeViewport
    /\ asm.container.fontSize = asm.originalCSSFontSize
    /\ LastRule(rules, PartSelector, 1).clip # <<>>
    /\ LastRule(rules, PartSelector, 1).clip #
          createCSSTextParts(asm.text, AsmFont, 4, 1, 1)[1].clip
    /\ move.inited
    /\ move.div.fontSize = move.originalCSSFontSize

AllPartsShown == \A k \in DOMAIN asm.parts : "hide" \notin asm.parts[k]
AllPartsHidden == \A k \in DOMAIN asm.parts : "hide" \in asm.parts[k]

\* C5: right after play() every part is non-hidden and the ghost is hidden;
\* right after the settle timer has fired every part is hidden and the ghost
\* is visible.
C5_AssembleLifecycle ==
    /\ lastOp = "asmPlay" => AllPartsShown /\ asm.ghostOpacity = "0"
    /\ lastOp = "asmSettle" => AllPartsHidden /\ asm.ghostOpacity = "1"

\* C5 witness: play() at time 0 on the four-part animation, and its settle
\* timer has fired after startDelay + duration.
C5_Witness ==
    /\ lastOp = "asmSettle"
    /\ Len(asm.parts) = 4
    /\ timers = <<>>
    /\ now = SettleDelay(asm)

\* C6: from a call of play() until startDelay + duration later, all parts are
\* non-hidden and the ghost is hidden, also when the settle timer of an
\* earlier play() fires in between.  (The deadline of the latest play() is
\* the last pending timer.)
C6_ShownForWholeDuration ==
    (asm.inited /\ timers # <<>> /\ now < timers[Len(timers)])
        => AllPartsShown /\ asm.ghostOpacity = "0"

IsPerfectSquare(n) == n >= 0 /\ \E r \in 0..n : r * r = n

\* No rule of the assemble animation is in the stylesheet.
NoAsmRules ==
    \A k \in 1..Len(rules) :
        rules[k].sel \notin { WrapperSelector, PartSelector,
                              ".textAssembleAnimationWrapper .text",
                              ".textAssembleAnimationWrapper .textAssembleAnimation",
                              ".textAssembleAnimationWrapper .hide" }

\* C7: init with a part count that is not a perfect square, or is <= 0, fails
\* before anything is created: no element, no rule, no resize listener.
C7_InitRejectsBadPartCount ==
    (asm.textCount <= 0 \/ ~IsPerfectSquare(asm.textCount))
        => /\ ~asm.inited
           /\ ~asm.container.exists
           /\ ~asm.ghost.exists
           /\ asm.parts = <<>>
           /\ NoAsmRules

\* The clip polygon in effect for the part with index i (child i + 1).
PartClip(i) == LastRule(rules, PartSelector, i + 1).clip

IntSqrt(n) == CHOOSE r \in 0..n : r * r = n

\* The polygon is the rectangle with the top-left corner (x, y) and the
\* size (w, h).
IsRectangle(poly, x, y, w, h) ==
    /\ Len(poly) = 4
    /\ FracEq(poly[1].x, x) /\ FracEq(poly[1].y, y)
    /\ FracEq(poly[2].x, FracAdd(x, w)) /\ FracEq(poly[2].y, y)
    /\ FracEq(poly[3].x, FracAdd(x, w)) /\ FracEq(poly[3].y, FracAdd(y, h))
    /\ FracEq(poly[4].x, x) /\ FracEq(poly[4].y, FracAdd(y, h))

\* C8: for a perfect-square part count N with g = sqrt(N) and the text box
\* W x H of #createCSSTextParts, part i is clipped to the rectangle at
\* ((i mod g) * (W / g), floor(i / g) * (H / g)) of size (W / g, H / g).
C8_RowMajorGrid ==
    (lastOp = "asmInit" /\ asm.textCount > 0 /\ IsPerfectSquare(asm.textCount))
        => LET g == IntSqrt(asm.textCount)
               W == getTextWidth(asm.text, AsmFont)
               H == GridTextHeight(AsmFont)
           IN  \A i \in 0..(asm.textCount - 1) :
                   IsRectangle(PartClip(i),
                               [n |-> (i % g) * W, d |-> g],
                               [n |-> (i \div g) * H, d |-> g],
                               [n |-> W, d |-> g],
                               [n |-> H, d |-> g])

\* C8 witness: init of the nine-part animation (a 3 x 3 grid) has run.
C8_Witness ==
    /\ lastOp = "asmInit"
    /\ asm.textCount = 9
    /\ Len(PartClip(4)) = 4
    /\ FracLt(FracOfInt(0), PartClip(4)[1].x)
    /\ FracLt(FracOfInt(0), PartClip(4)[1].y)

\* The clip region of part i as [l, t, r, b], from the left-top and the
\* right-bottom point of its polygon.
PartRect(i) ==
    [l |-> PartClip(i)[1].x, t |-> PartClip(i)[1].y,
     r |-> PartClip(i)[3].x, b |-> PartClip(i)[3].y]

\* The polygon of part i is the axis-parallel rectangle PartRect(i).
PartIsRect(i) ==
    /\ Len(PartClip(i)) = 4
    /\ FracEq(PartClip(i)[2].x, PartRect(i).r) /\ FracEq(PartClip(i)[2].y, PartRect(i).t)
    /\ FracEq(PartClip(i)[4].x, PartRect(i).l) /\ FracEq(PartClip(i)[4].y, PartRect(i).b)

\* a and b are neighbours in the set S of coordinates.
Neighbours(a, b, S) ==
    /\ FracLt(a, b)
    /\ ~ \E c \in S : FracLt(a, c) /\ FracLt(c, b)

Mid(a, b) == FracDiv(FracAdd(a, b), FracOfInt(2))

\* The parts 0..N-1 tile the rectangle from (0, 0) to (W, H): no part reaches
\* outside it, and the midpoint of every cell of the arrangement of all the
\* parts' edges lies strictly inside exactly one part.
TilesBox(N, W, H) ==
    LET idx == 0..(N - 1)
        xs  == {FracOfInt(0), FracOfInt(W)}
                 \cup {PartRect(i).l : i \in idx} \cup {PartRect(i).r : i \in idx}
        ys  == {FracOfInt(0), FracOfInt(H)}
                 \cup {PartRect(i).t : i \in idx} \cup {PartRect(i).b : i \in idx}
    IN  /\ \A i \in idx :
              /\ PartIsRect(i)
              /\ FracLe(FracOfInt(0), PartRect(i).l)
              /\ FracLe(PartRect(i).l, PartRect(i).r)
              /\ FracLe(PartRect(i).r, FracOfInt(W))
              /\ FracLe(FracOfInt(0), PartRect(i).t)
              /\ FracLe(PartRect(i).t, PartRect(i).b)
              /\ FracLe(PartRect(i).b, FracOfInt(H))
        /\ \A xa \in xs, xb \in xs, ya \in ys, yb \in ys :
              (Neighbours(xa, xb, xs) /\ Neighbours(ya, yb, ys))
                 => Cardinality(
                        {i \in idx :
                            /\ FracLt(PartRect(i).l, Mid(xa, xb))
                            /\ FracLt(Mid(xa, xb), PartRect(i).r)
                            /\ FracLt(PartRect(i).t, Mid(ya, yb))
                            /\ FracLt(Mid(ya, yb), PartRect(i).b)}) = 1

\* C9: for a perfect-square part count the clip rectangles exactly tile the
\* text box from (0, 0) to (textWidth, textHeight): they cover it, do not
\* overlap in their interiors and do not reach outside it.
C9_PartsTileTextBox ==
    (lastOp = "asmInit" /\ asm.textCount > 0 /\ IsPerfectSquare(asm.textCount))
        => TilesBox(asm.textCount, getTextWidth(asm.text, AsmFont),
                    GridTextHeight(AsmFont))

\* C9 witness: init of the four-part animation in the small viewport, where
\* the box is that of the shrunk font.
C9_Witness ==
    /\ lastOp = "asmInit"
    /\ asm.textCount = 4
    /\ viewport = SmallViewport
    /\ asm.container.fontSize # asm.originalCSSFontSize
    /\ FracLt(PartRect(0).r, FracOfInt(getTextWidth(asm.text, AsmFont)))
    /\ FracEq(PartRect(3).r, FracOfInt(getTextWidth(asm.text, AsmFont)))

\* C10: after a resize event the clip region of every part is the partition
\* of the text box measured at the font the resize left on the container.
C10_ClipFollowsResize ==
    (lastOp = "resize" /\ asm.inited)
        => \A i \in 0..(asm.textCount - 1) :
               PartClip(i) =
                   createCSSTextParts(asm.text, AsmFont, asm.textCount,
                                      asm.duration_inS, asm.startDelay_inS)[i + 1].clip

\* The @keyframes rules of the sheet with the handed animation name.
KeyframesNamed(sheet, name) ==
    {k \in 1..Len(sheet) : sheet[k].sel = "@keyframes" /\ sheet[k].animName = name}

\* The start pose (0%) in effect for an animation name: that of the last
\* @keyframes rule with the name.
StartPose(sheet, name) ==
    LET hits == KeyframesNamed(sheet, name)
    IN  IF hits = {} THEN NoPose
        ELSE sheet[CHOOSE k \in hits : \A j \in hits : j <= k].from

\* The start poses of the parts of the assemble animation.
AsmStartPoses == [i \in 1..asm.textCount |-> StartPose(rules, <<"move", i>>)]

\* C11: the random start pose of every part is generated exactly once, at
\* init (one @keyframes rule per part), and no later resize event, play() or
\* settle-timer firing changes it.
C11_StartPoseGeneratedOnce ==
    /\ [](asm.inited =>
            \A i \in 1..asm.textCount :
                Cardinality(KeyframesNamed(rules, <<"move", i>>)) = 1)
    /\ [][asm.inited => AsmStartPoses' = AsmStartPoses]_vars

\* C11 witness: the four-part animation was played twice, the timer of the
\* first play() has fired, a resize event followed, and the poses are still
\* the draws of init.
C11_Witness ==
    /\ lastOp = "resize"
    /\ asm.textCount = 4
    /\ timers # <<>>
    /\ AllPartsHidden
    /\ AsmStartPoses[1].rotateX # 0
    /\ AsmStartPoses = [i \in 1..4 |-> KeyframesRule(i - 1, "mixed").from]

\* The start pose #createCSSKeyframes generates is within the ranges it
\* hands to random.
PoseWithinRanges(pose) ==
    /\ pose.rotateX \in -500..1000
    /\ pose.rotateY \in -500..1000
    /\ pose.rotateZ \in -500..1000
    /\ pose.translateZ \in -5000..10000

\* The part indices the keyframes are examined for.
MaxPartCount == 9

\* C12: random(min, max) returns an integer r with min <= r <= max for every
\* draw of Math.random, and so every generated start rotation is an integer
\* in [-500, 1000] and every start depth an integer in [-5000, 10000].
C12_RandomWithinRange ==
    /\ probe.op = "random" => probe.result \in probe.min..probe.max
    /\ \A stream \in RandomStreams, i \in 0..(MaxPartCount - 1) :
           PoseWithinRanges(KeyframesRule(i, stream).from)

\* C12 witness: a draw for which random returns the inclusive upper bound of
\* a range with more than one value.
C12_Witness ==
    /\ probe.op = "random"
    /\ probe.min < probe.max
    /\ probe.result = probe.max

\* The font #resize measures after it has put the element back to the
\* configured size.
AsmBaseFont == getHTMLElementFont(asm.originalCSSFontSize)
MoveBaseFont == getHTMLElementFont(move.originalCSSFontSize)

\* C13: if the text measured at the base font fits the available area on both
\* axes, clampFontSizeToScreenPadding returns the size token of the base font
\* unchanged, and #resize leaves the element at the configured font size.
C13_FittingBaseIsKept ==
    /\ (asm.inited /\ FitsBase(asm.text, AsmBaseFont, AsmAvail))
          => /\ clampFontSizeToScreenPadding(asm.text, AsmBaseFont,
                     asm.minScreenPadding_inPC, viewport) = getCSSFontSize(AsmBaseFont)
             /\ asm.container.fontSize = asm.originalCSSFontSize
    /\ (move.inited /\ FitsBase(move.text, MoveBaseFont, MoveAvail))
          => /\ clampFontSizeToScreenPadding(move.text, MoveBaseFont,
                     move.minScreenPadding_inPC, viewport) = getCSSFontSize(MoveBaseFont)
             /\ move.div.fontSize = move.originalCSSFontSize

\* C13 witness: both animations are initialised and a resize event has run in
\* the large viewport, in which both base fonts fit.
C13_Witness ==
    /\ lastOp = "resize"
    /\ viewport = LargeViewport
    /\ asm.inited
    /\ asm.originalCSSFontSize = Rem(300)
    /\ FitsBase(asm.text, AsmBaseFont, AsmAvail)
    /\ move.inited
    /\ move.originalCSSFontSize = Rem(100)
    /\ FitsBase(move.text, MoveBaseFont, MoveAvail)
    /\ move.div.fontSize = Rem(100)

\* The step-by-step solver returns what clampFontSizeToScreenPadding returns.
LoopAgreesWithClamp ==
    probe.op = "clamp"
        => probe.result = clampFontSizeToScreenPadding(probe.text, probe.font,
                                                       probe.padding, viewport)

\* C14: clampFontSizeToScreenPadding terminates for every input, and when the
\* available area is zero or negative on an axis (padding >= 100 or a
\* zero-sized viewport) and the base font does not fit, it returns the size 0
\* or 1.
C14_TerminatesWithFallback ==
    /\ <>(probe.op = "clamp")
    /\ []((/\ probe.op = "clamp"
           /\ ~(ProbeAvail.x > 0 /\ ProbeAvail.y > 0)
           /\ ~FitsBase(probe.text, probe.font, ProbeAvail))
             => probe.result \in {Rem(0), Rem(10)})

\* C14 witness: the solver has returned for a negative available area
\* (padding 120).
C14_Witness ==
    /\ probe.op = "clamp"
    /\ probe.padding > 100
    /\ viewport.x > 0
    /\ ProbeAvail.x < 0
    /\ probe.result = Rem(0)

\* The Settled state: every part is hidden and without the animation class,
\* and the ghost is visible.
Settled ==
    /\ AllPartsHidden
    /\ \A k \in DOMAIN asm.parts : "textAssembleAnimation" \notin asm.parts[k]
    /\ asm.ghostOpacity = "1"

\* C15: when timeouts fire and time passes, every play() is followed by a
\* state in which no timeout is pending and the animation is Settled, and
\* while no timeout is pending (until the next play()) it stays Settled,
\* whatever resize events occur.
C15_EventuallySettled ==
    /\ []((asm.inited /\ timers = <<>>) => Settled)
    /\ (timers # <<>>) ~> (timers = <<>> /\ Settled)

\* C15 witness: two play() calls a second apart and a resize event, and the
\* timeout of the last play() has fired: Settled, nothing pending.
C15_Witness ==
    /\ lastOp = "asmSettle"
    /\ timers = <<>>
    /\ Settled
    /\ Len(asm.parts) = 4
    /\ now = MsPerSecond + SettleDelay(asm)
    /\ viewport = SmallViewport
    /\ asm.container.fontSize # asm.originalCSSFontSize

\* C16: a play() call made while the animation is running restarts it: after
\* the call every part (assemble) or the text element (move) is rendered with
\* an animation that began at the time of the call.
C16_ReplayRestartsAnimation ==
    [][/\ (lastOp' = "asmPlay" /\ \E k \in DOMAIN asm.partAnim : asm.partAnim[k].running)
           => \A k \in DOMAIN asm'.partAnim :
                  asm'.partAnim[k] = [running |-> TRUE, since |-> now]
       /\ (lastOp' = "movePlay" /\ move.anim.running)
           => move'.anim = [running |-> TRUE, since |-> now]]_vars

PartStyleInEffect(i) ==
    [clip     |-> LastRule(DocumentRules, PartSelector, i).clip,
     animName |-> LastRule(DocumentRules, PartSelector, i).animName,
     duration |-> LastRule(DocumentRules, PartSelector, i).duration,
     delay    |-> LastRule(DocumentRules, PartSelector, i).delay,
     pose     |-> StartPose(DocumentRules, <<"move", i>>)]

\* The style and visibility in effect for the parts of the first assemble
\* animation.
AsmInEffect ==
    [style   |-> [i \in 1..asm.textCount |-> PartStyleInEffect(i)],
     hide    |-> LastRule(DocumentRules, ".textAssembleAnimationWrapper .hide", 0).display,
     opacity |-> LastRule(DocumentRules,
                          ".textAssembleAnimationWrapper .textAssembleAnimation", 0).opacity,
     parts   |-> asm.parts,
     ghostOpacity |-> asm.ghostOpacity,
     timers  |-> timers]

\* C18: init, play() and the timeout callback of a second
\* TextAssembleAnimation, and init and play() of a TextMoveAnimation, leave
\* the clip regions, start poses, timing and visibility in effect for the
\* parts of the first TextAssembleAnimation unchanged.
C18_InstancesDoNotInterfere ==
    [][(asm.inited /\ lastOp' \in {"otherInit", "otherPlay", "otherSettle",
                                    "moveInit", "movePlay"})
          => AsmInEffect' = AsmInEffect]_vars

\* The keyframes in effect for the move animation: the last @keyframes rule
\* named "move".
MoveKeyframes ==
    LET hits == KeyframesNamed(rules, <<"move", 0>>)
    IN  rules[CHOOSE k \in hits : \A j \in hits : j <= k]

\* C19: the move animation starts at a horizontal offset of -200% for the
\* direction "left" and +200% for "right", with vertical offset 0 and
\* opacity 0, and ends at the resting position (0, 0) with opacity 1.
C19_MoveStartsOffScreen ==
    (move.inited /\ move.direction \in {"left", "right"})
        => /\ LastRule(rules, ".moveAnimation", 0).animName = <<"move", 0>>
           /\ MoveKeyframes.from.translateXPercent =
                  (IF move.direction = "left" THEN -200 ELSE 200)
           /\ MoveKeyframes.from.translateYPercent = 0
           /\ MoveKeyframes.from.opacity = "0"
           /\ MoveKeyframes.to.translateXPercent = 0
           /\ MoveKeyframes.to.translateYPercent = 0
           /\ MoveKeyframes.to.opacity = "1"

\* C19 witness: a move animation with the direction "right" is playing.
C19_Witness ==
    /\ lastOp = "movePlay"
    /\ move.direction = "right"
    /\ "moveAnimation" \in move.classes
    /\ MoveKeyframes.from.translateXPercent = 200

\* C20: once an animation is initialised, no play(), resize event or timeout
\* callback has raised an error, wherever the element is attached: the
\* assertion of dom_removeHiddenElement has held at every call made by init
\* and #resize.
C20_NoErrorAfterInit ==
    /\ asm.inited => (~asm.container.threw /\ ~asm.ghost.threw)
    /\ move.inited => ~move.div.threw

\* C20 witness: a resize event has run while the assemble animation, played
\* before, was outside the document (#resize went through
\* dom_addHiddenElement and dom_removeHiddenElement) and the move animation
\* was inside it.
C20_Witness ==
    /\ lastOp = "resize"
    /\ asm.inited
    /\ timers # <<>>
    /\ asm.container.parent = "none"
    /\ asm.container.display = "flex"
    /\ move.inited
    /\ move.div.parent = "inDocument"
    /\ "moveAnimation" \in move.classes

\* C21: a resize event leaves every animated element where it was: it has
\* the same parent as before (none, one inside the document, or one outside
\* it), so that neither the caller's tree nor the children of document.body
\* have changed.  (init creates its element, which is detached before and
\* after.)
C21_ResizeKeepsAttachment ==
    /\ [](lastOp \in {"asmInit", "moveInit"}
            => /\ asm.container.parent # "body"
               /\ move.div.parent # "body")
    /\ [][lastOp' = "resize"
            => /\ asm'.container.parent = asm.container.parent
               /\ move'.div.parent = move.div.parent]_vars

\* The height the spec's measure contract would have the fit test use: the
\* larger of getFontHeight(font) and getTextHeight(text, font).
LargerHeight(text, font) ==
    IF getFontHeight(font) >= getTextHeight(text, font)
    THEN getFontHeight(font)
    ELSE getTextHeight(text, font)

\* C22: the solver's outcome is the one of a fit test on the larger of font
\* height and actual glyph height: the base size is returned exactly when
\* the text at the base font fits (<=) with that height, and a searched size
\* n is returned exactly when every size below n passed the loop test (<)
\* with that height and n did not.
C22_FitTestUsesLargerHeight ==
    probe.op = "clamp" =>
        LET avail == AvailableWindowSize(viewport, probe.padding)
            Passes(k) ==
                LET f == setCSSFontSize(probe.font, Rem(k * 10))
                IN  /\ getTextWidth(probe.text, f) < avail.x
                    /\ LargerHeight(probe.text, f) < avail.y
            n == probe.result.n \div 10
        IN  IF /\ getTextWidth(probe.text, probe.font) <= avail.x
               /\ LargerHeight(probe.text, probe.font) <= avail.y
            THEN probe.result = getCSSFontSize(probe.font)
            ELSE /\ probe.result = Rem(n * 10)
                 /\ \A k \in 1..(n - 1) : Passes(k)
                 /\ (n > 0 /\ avail.x > 0 /\ avail.y > 0) => ~Passes(n)

C24_ResizeBeforeInitIsNoOp ==
    [][lastOp' = "resize"
         => /\ ~asm.inited => (asm' = asm /\ ~asm'.container.threw)
            /\ ~move.inited => (move' = move /\ ~move'.div.threw)
            /\ rules' = rules
            /\ timers' = timers]_vars

\* C24 witness: the window was resized before either controller was
\* initialised, and both are still as their constructors left them.
C24_Witness ==
    /\ lastOp = "resize"
    /\ ~asm.inited
    /\ ~move.inited
    /\ asm = AsmConstructed
    /\ move = MoveConstructed
    /\ rules = <<>>

-----------------------------------------------------------------------------
(* core.Timer.  The timer is the record [startTP, stoppedTime]; the clock   *)
(* performance.now() is the variable now, in clock units.  probe holds the  *)
(* timer, the value the last call returned and the argument of the last     *)
(* add().                                                                   *)

\* #STOP_DURATION: the value of #stoppedTime that marks a stopped timer.
STOP_DURATION == -1

\* The clock is followed up to this value.
TimerClockMax == 4

\* The arguments of add().
AddTimes == {-2, -1, 1, 2}

isPaused(tm) == tm.stoppedTime > 0

isStopped(tm) == tm.stoppedTime = STOP_DURATION

getElapsedTime(tm, clock) ==
    IF isStopped(tm) THEN 0
    ELSE IF isPaused(tm) THEN tm.stoppedTime
    ELSE clock - tm.startTP

\* new Timer()
TimerConstructed(clock) == [startTP |-> clock, stoppedTime |-> 0]

\* Mutant of restart: #stoppedTime is not reset.
restartKeepsStoppedTime(tm, clock) == [tm EXCEPT !.startTP = clock]

\* restart(): the timer after the call (the call returns getElapsedTime()).
restart(tm, clock) == [tm EXCEPT !.startTP = clock, !.stoppedTime = 0]

\* Mutant of resume: the test isPaused() is left out.
resumeUnguarded(tm, clock) ==
    [tm EXCEPT !.startTP = clock - tm.stoppedTime, !.stoppedTime = 0]

resume(tm, clock) ==
    IF isPaused(tm)
    THEN [tm EXCEPT !.startTP = clock - tm.stoppedTime, !.stoppedTime = 0]
    ELSE tm

pause(tm, clock) ==
    IF ~isPaused(tm) /\ ~isStopped(tm)
    THEN [tm EXCEPT !.stoppedTime = clock - tm.startTP]
    ELSE tm

stop(tm) == [tm EXCEPT !.stoppedTime = STOP_DURATION]

add(tm, time) ==
    IF isStopped(tm) THEN tm
    ELSE IF isPaused(tm)
         THEN IF time < 0 /\ tm.stoppedTime < Abs(time)
              THEN [tm EXCEPT !.stoppedTime = 0]
              ELSE [tm EXCEPT !.stoppedTime = tm.stoppedTime - time]
         ELSE [tm EXCEPT !.startTP = tm.startTP - time]

\* The fields of the timers that are followed.
TimerInRange(tm) ==
    /\ tm.startTP \in (0 - 2 * TimerClockMax)..(2 * TimerClockMax)
    /\ tm.stoppedTime \in (0 - 2 * TimerClockMax)..(2 * TimerClockMax)

ControllersIdle ==
    /\ viewport = [x |-> 1920, y |-> 1080]
    /\ asm = AsmConstructed
    /\ move = MoveConstructed
    /\ rules = <<>>
    /\ timers = <<>>
    /\ other = OtherConstructed

TimerInit ==
    /\ now \in 0..1
    /\ probe = [tm |-> TimerConstructed(now), ret |-> 0, arg |-> 0]
    /\ lastOp = "construct"
    /\ ControllersIdle

TimerRestart ==
    /\ probe' = [probe EXCEPT !.tm = restart(probe.tm, now),
                              !.ret = getElapsedTime(probe.tm, now)]
    /\ lastOp' = "restart"
    /\ UNCHANGED <<viewport, asm, move, rules, timers, now, other>>

TimerResume ==
    /\ probe' = [probe EXCEPT !.tm = resume(probe.tm, now)]
    /\ lastOp' = "resume"
    /\ UNCHANGED <<viewport, asm, move, rules, timers, now, other>>

TimerPause ==
    /\ probe' = [probe EXCEPT !.tm = pause(probe.tm, now)]
    /\ lastOp' = "pause"
    /\ UNCHANGED <<viewport, asm, move, rules, timers, now, other>>

TimerStop ==
    /\ probe' = [probe EXCEPT !.tm = stop(probe.tm)]
    /\ lastOp' = "stop"
    /\ UNCHANGED <<viewport, asm, move, rules, timers, now, other>>

TimerAdd(time) ==
    /\ TimerInRange(add(probe.tm, time))
    /\ probe' = [probe EXCEPT !.tm = add(probe.tm, time), !.arg = time]
    /\ lastOp' = "add"
    /\ UNCHANGED <<viewport, asm, move, rules, timers, now, other>>

\* performance.now() has grown by one unit.
TimerTick ==
    /\ now < TimerClockMax
    /\ now' = now + 1
    /\ lastOp' = "clock"
    /\ UNCHANGED <<viewport, asm, move, rules, timers, probe, other>>

TimerNext ==
    \/ TimerRestart
    \/ TimerResume
    \/ TimerPause
    \/ TimerStop
    \/ \E time \in AddTimes : TimerAdd(time)
    \/ TimerTick

SpecTimer == TimerInit /\ [][TimerNext]_vars

\* The timer runs: it is neither paused nor stopped.
TimerRuns(tm) == ~isPaused(tm) /\ ~isStopped(tm)

\* C25: add(t) on a timer that is not stopped makes getElapsedTime(), read
\* at the same clock value, larger by exactly t, running or paused; on a
\* stopped timer add changes nothing.
C25_AddShiftsElapsedTime ==
    [][lastOp' = "add"
         => IF isStopped(probe.tm)
            THEN probe'.tm = probe.tm
            ELSE getElapsedTime(probe'.tm, now')
                   = getElapsedTime(probe.tm, now) + probe'.arg]_vars

\* C26: pause() on a running timer makes it paused without changing the
\* elapsed time, which then stays the same while the clock advances;
\* resume() on a paused timer makes it run again from the stored elapsed
\* time, which from then on grows with the clock.
C26_PauseHoldsElapsedTime ==
    /\ [][(lastOp' = "pause" /\ TimerRuns(probe.tm))
            => /\ isPaused(probe'.tm)
               /\ getElapsedTime(probe'.tm, now')
                    = getElapsedTime(probe.tm, now)]_vars
    /\ [][(lastOp' = "clock" /\ isPaused(probe.tm))
            => getElapsedTime(probe'.tm, now')
                 = getElapsedTime(probe.tm, now)]_vars
    /\ [][(lastOp' = "resume" /\ isPaused(probe.tm))
            => /\ TimerRuns(probe'.tm)
               /\ getElapsedTime(probe'.tm, now') = probe.tm.stoppedTime]_vars
    /\ [][(lastOp' = "clock" /\ TimerRuns(probe.tm))
            => getElapsedTime(probe'.tm, now')
                 = getElapsedTime(probe.tm, now) + (now' - now)]_vars

\* C27: stop() leaves the timer stopped with an elapsed time of 0, and a
\* stopped timer stays so, with an elapsed time of 0, through every step
\* (clock, pause, resume, add, stop) that is not restart().
C27_StoppedUntilRestart ==
    /\ [][lastOp' = "stop"
            => /\ isStopped(probe'.tm)
               /\ getElapsedTime(probe'.tm, now') = 0]_vars
    /\ [][(isStopped(probe.tm) /\ lastOp' # "restart")
            => /\ isStopped(probe'.tm)
               /\ getElapsedTime(probe'.tm, now') = 0]_vars

\* C27 witness: a stopped timer, later on the clock than its start, on
\* which resume() has just been called.
C27_Witness ==
    /\ lastOp = "resume"
    /\ isStopped(probe.tm)
    /\ now > probe.tm.startTP
    /\ getElapsedTime(probe.tm, now) = 0

\* C28: restart() returns the elapsed time of the moment before the call and
\* leaves the timer running, neither paused nor stopped, with an elapsed
\* time of 0 at the clock value of the call.
C28_RestartReturnsElapsed ==
    [][lastOp' = "restart"
         => /\ probe'.ret = getElapsedTime(probe.tm, now)
            /\ ~isPaused(probe'.tm)
            /\ ~isStopped(probe'.tm)
            /\ getElapsedTime(probe'.tm, now') = 0]_vars

\* C28 witness: restart() has returned an elapsed time above 0 and the timer
\* runs from the clock value of the call.
C28_Witness ==
    /\ lastOp = "restart"
    /\ probe.ret > 0
    /\ probe.tm = TimerConstructed(now)
    /\ now > 0

-----------------------------------------------------------------------------
(* containsFlags.  Flag words are non-negative integers; & and | work on    *)
(* their binary digits.                                                     *)

\* The largest flag word handed in.
FlagMax == 7

\* The longest flag list handed in.
MaxFlagCount == 2

\* a & b
RECURSIVE BitAnd(_, _)
BitAnd(a, b) ==
    IF a = 0 \/ b = 0 THEN 0
    ELSE (a % 2) * (b % 2) + 2 * BitAnd(a \div 2, b \div 2)

\* a | b
RECURSIVE BitOr(_, _)
BitOr(a, b) ==
    IF a = 0 THEN b
    ELSE IF b = 0 THEN a
    ELSE (IF a % 2 = 1 \/ b % 2 = 1 THEN 1 ELSE 0)
           + 2 * BitOr(a \div 2, b \div 2)

\* The for loop: foundFlags after the flags from position i on were looked at.
RECURSIVE FoundFlags(_, _, _, _)
FoundFlags(sourceFlags, flags, i, foundFlags) ==
    IF i > Len(sourceFlags) THEN foundFlags
    ELSE FoundFlags(sourceFlags, flags, i + 1,
                    IF BitAnd(sourceFlags[i], flags) = sourceFlags[i]
                    THEN BitOr(foundFlags, sourceFlags[i])
                    ELSE foundFlags)

containsFlags(sourceFlags, flags) ==
    FoundFlags(sourceFlags, flags, 1, 0) = flags

FlagLists ==
    UNION { [1..n -> 0..FlagMax] : n \in 0..MaxFlagCount }

FlagsInit ==
    /\ probe \in [op : {"input"}, sourceFlags : FlagLists,
                  flags : 0..FlagMax, result : {FALSE}]
    /\ now = 0
    /\ lastOp = "construct"
    /\ ControllersIdle

\* containsFlags(sourceFlags, flags)
FlagsCall ==
    /\ probe.op = "input"
    /\ probe' = [probe EXCEPT
                   !.op = "containsFlags",
                   !.result = containsFlags(probe.sourceFlags, probe.flags)]
    /\ lastOp' = "containsFlags"
    /\ UNCHANGED <<viewport, asm, move, rules, timers, now, other>>

FlagsNext == FlagsCall

SpecFlags == FlagsInit /\ [][FlagsNext]_vars

\* C29: containsFlags(sourceFlags, flags) is true exactly when every flag of
\* sourceFlags is contained in flags: (flag & flags) = flag for every
\* element of the list.
C29_TrueIffEveryFlagContained ==
    probe.op = "containsFlags" =>
        (probe.result <=>
            \A i \in DOMAIN probe.sourceFlags :
                BitAnd(probe.sourceFlags[i], probe.flags) = probe.sourceFlags[i])

-----------------------------------------------------------------------------
(* core.MessageBus.  probe holds #receivers, the receivers in the order of  *)
(* their add() calls, and the send() that runs or ran last: its message,    *)
(* the position of its for loop (0: no send() is running), the number of    *)
(* receivers at its start and the calls it has made.                        *)

\* The receivers are followed up to this number.
MaxReceivers == 3

Receivers == {"a", "b"}

Messages == {0, 1}

\* new MessageBus()
BusConstructed ==
    [receivers |-> <<>>, registered |-> <<>>, msg |-> 0, idx |-> 0,
     atStart |-> 0, calls |-> <<>>]

\* Mutant of add: the receiver is put in front (unshift).
MessageBusAddFirst(receivers, receiver) == <<receiver>> \o receivers

\* add(receiver): #receivers.push(receiver)
MessageBusAdd(receivers, receiver) == Append(receivers, receiver)

BusInit ==
    /\ probe = BusConstructed
    /\ now = 0
    /\ lastOp = "construct"
    /\ ControllersIdle

\* add(receiver), called while no send() is running.
BusAdd(receiver) ==
    /\ probe.idx = 0
    /\ Len(probe.receivers) < MaxReceivers
    /\ probe' = [probe EXCEPT
                   !.receivers = MessageBusAdd(probe.receivers, receiver),
                   !.registered = Append(probe.registered, receiver)]
    /\ lastOp' = "busAdd"
    /\ UNCHANGED <<viewport, asm, move, rules, timers, now, other>>

\* send(message): the for loop starts.
BusSendBegin(message) ==
    /\ probe.idx = 0
    /\ probe' = [probe EXCEPT !.msg = message, !.idx = 1,
                              !.atStart = Len(probe.receivers),
                              !.calls = <<>>]
    /\ lastOp' = "sendBegin"
    /\ UNCHANGED <<viewport, asm, move, rules, timers, now, other>>

\* One pass of the for loop: receiver(message).  The receiver is any
\* function: it may call add() on the bus (added # "none").
BusDeliver(added) ==
    /\ probe.idx \in 1..Len(probe.receivers)
    /\ LET after == IF added # "none" /\ Len(probe.receivers) < MaxReceivers
                    THEN [probe EXCEPT
                            !.receivers = MessageBusAdd(probe.receivers, added),
                            !.registered = Append(probe.registered, added)]
                    ELSE probe
       IN  probe' = [after EXCEPT
                       !.calls = Append(probe.calls,
                                        <<probe.receivers[probe.idx], probe.msg>>),
                       !.idx = probe.idx + 1]
    /\ lastOp' = "deliver"
    /\ UNCHANGED <<viewport, asm, move, rules, timers, now, other>>

\* The for loop has passed the last receiver: send() returns.
BusSendEnd ==
    /\ probe.idx > Len(probe.receivers)
    /\ probe' = [probe EXCEPT !.idx = 0]
    /\ lastOp' = "send"
    /\ UNCHANGED <<viewport, asm, move, rules, timers, now, other>>

BusNext ==
    \/ \E receiver \in Receivers : BusAdd(receiver)
    \/ \E message \in Messages : BusSendBegin(message)
    \/ \E added \in Receivers \cup {"none"} : BusDeliver(added)
    \/ BusSendEnd

SpecBus == BusInit /\ [][BusNext]_vars

\* C30: when send(m) returns it has called, with m, the receivers that were
\* registered before it in the order of their registration, each once per
\* registration (followed by the ones registered while it ran); and no step
\* takes a receiver out of the list or moves it.
C30_SendCallsAllInOrder ==
    /\ [](lastOp = "send"
            => /\ Len(probe.calls) >= probe.atStart
               /\ Len(probe.calls) = Len(probe.registered)
               /\ \A i \in 1..Len(probe.calls) :
                     probe.calls[i] = <<probe.registered[i], probe.msg>>)
    /\ [][/\ Len(probe'.receivers) >= Len(probe.receivers)
          /\ SubSeq(probe'.receivers, 1, Len(probe.receivers))
               = probe.receivers]_vars

\* C30 witness: send(1) has returned on a bus with two different receivers
\* registered before it and one registered while it ran.
C30_Witness ==
    /\ lastOp = "send"
    /\ probe.msg = 1
    /\ probe.atStart = 2
    /\ Len(probe.registered) = 3
    /\ probe.registered[1] # probe.registered[2]
    /\ probe.calls = <<<<probe.registered[1], 1>>, <<probe.registered[2], 1>>,
                       <<probe.registered[3], 1>>>>

\* C31: a pending settle timeout is never cancelled.  play() only adds one,
\* due startDelay + duration after the call; a timeout leaves the pending
\* ones only by firing, at the clock value it is due, and its callback hides
\* all parts and shows the ghost, also while the timeout of a later play()
\* is still pending; and every pending timeout does fire, so that k calls of
\* play() are followed by k callbacks.
C31_SettleTimerNeverCancelled ==
    /\ [][lastOp' = "asmPlay"
            => timers' = Append(timers, now + SettleDelay(asm))]_vars
    /\ [][lastOp' = "asmSettle"
            => /\ timers # <<>>
               /\ timers' = Tail(timers)
               /\ now = Head(timers)
               /\ Settled']_vars
    /\ [][lastOp' \notin {"asmPlay", "asmSettle"} => timers' = timers]_vars
    /\ \A n \in 1..MaxTimers : (Len(timers) = n) ~> (Len(timers) = n - 1)

\* C31 witness: play() was called twice, a second apart; the timeout of the
\* first call has just fired, has hidden the parts and shown the ghost, and
\* the timeout of the second call is still pending.
C31_Witness ==
    /\ lastOp = "asmSettle"
    /\ Len(timers) = 1
    /\ timers[1] = now + MsPerSecond
    /\ asm.textCount > 1
    /\ Settled

-----------------------------------------------------------------------------
(* #resize on its own: the controllers are initialised with original font   *)
(* sizes given in rem and in px, and the window is resized.                 *)

ResizeSizes == {Rem(100), Rem(25), Px(1125), Px(170)}

ResizeAsmConfigs ==
    { AsmConfig("Jonas", sz, 20, 4, 1, 1, "low") : sz \in ResizeSizes }

ResizeMoveConfigs ==
    { MoveConfig("Fehrenbacher", sz, 40, 3, 11, "left") : sz \in ResizeSizes }

ResizeInit ==
    /\ viewport \in Viewports
    /\ asm = AsmConstructed
    /\ move = MoveConstructed
    /\ rules = <<>>
    /\ timers = <<>>
    /\ now = 0
    /\ lastOp = "construct"
    /\ probe = NoProbe
    /\ other = OtherConstructed

ResizeNext ==
    \/ \E config \in ResizeAsmConfigs : AsmInit(config)
    \/ \E config \in ResizeMoveConfigs : MoveInit(config)
    \/ \E win \in Viewports : ResizeEvent(win)

SpecResize == ResizeInit /\ [][ResizeNext]_vars

\* The inline font size the claim expects after #resize: the size returned
\* by clampFontSizeToScreenPadding for the element's font at the original
\* size when the two sizes differ, the original size when they are equal.
ExpectedFontSize(text, originalCSSFontSize, minScreenPadding_inPC, win) ==
    LET cssFont == getHTMLElementFont(originalCSSFontSize)
        optimal == clampFontSizeToScreenPadding(text, cssFont,
                                                minScreenPadding_inPC, win)
    IN  IF PxTenths(optimal) # PxTenths(originalCSSFontSize)
        THEN optimal
        ELSE originalCSSFontSize

\* C32: after every #resize, in both controllers, the element's inline font
\* size is the size clampFontSizeToScreenPadding returned if that size
\* differs from the original one, and the original size if it does not.
C32_ResizeAppliesClampedSize ==
    [][lastOp' = "resize"
         => /\ asm.inited
                => asm'.container.fontSize
                     = ExpectedFontSize(asm.text, asm.originalCSSFontSize,
                                        asm.minScreenPadding_inPC, viewport')
            /\ move.inited
                => move'.div.fontSize
                     = ExpectedFontSize(move.text, move.originalCSSFontSize,
                                        move.minScreenPadding_inPC, viewport')]_vars

-----------------------------------------------------------------------------
(* The CSS font string as a string: a sequence of characters, of which " "  *)
(* is the separator of String.split(" ") and Array.join(" ").               *)

\* The longest weight, size and family that are handed in.
MaxWordLen == 2
MaxFamilyLen == 3

\* The characters of a token, and of a font family (which may hold spaces).
WordChars == {"a", "1"}
FamilyChars == {"a", " "}

Words == UNION { [1..n -> WordChars] : n \in 1..MaxWordLen }
Families == UNION { [1..n -> FamilyChars] : n \in 1..MaxFamilyLen }

\* str.split(" ")
RECURSIVE StrSplit(_)
StrSplit(str) ==
    IF \A i \in 1..Len(str) : str[i] # " "
    THEN <<str>>
    ELSE LET i == CHOOSE j \in 1..Len(str) :
                      /\ str[j] = " "
                      /\ \A h \in 1..(j - 1) : str[h] # " "
         IN  <<SubSeq(str, 1, i - 1)>> \o StrSplit(SubSeq(str, i + 1, Len(str)))

\* arr.join(" ")
RECURSIVE StrJoin(_)
StrJoin(arr) ==
    IF arr = <<>> THEN <<>>
    ELSE IF Len(arr) = 1 THEN arr[1]
    ELSE arr[1] \o <<" ">> \o StrJoin(Tail(arr))

\* getCSSFontSize on the string: cssFont.split(" ")[1]
getCSSFontSizeStr(cssFont) == StrSplit(cssFont)[2]

\* Mutant of setCSSFontSize on the string: the first element is replaced.
setCSSFontSizeStrFirst(cssFont, cssFontSize) ==
    StrJoin([StrSplit(cssFont) EXCEPT ![1] = cssFontSize])

\* setCSSFontSize on the string: split, cssFontArr[1] = cssFontSize, join.
setCSSFontSizeStr(cssFont, cssFontSize) ==
    LET cssFontArr == StrSplit(cssFont)
    IN  StrJoin(IF Len(cssFontArr) >= 2
                THEN [cssFontArr EXCEPT ![2] = cssFontSize]
                ELSE Append(cssFontArr, cssFontSize))

\* `${fontWeight} ${fontSize} ${fontFamily}`
FontString(weight, size, family) == weight \o <<" ">> \o size \o <<" ">> \o family

FontInit ==
    /\ probe \in [op : {"input"}, weight : Words, size : Words,
                  family : Families, s : Words, result : {<<>>}]
    /\ now = 0
    /\ lastOp = "construct"
    /\ ControllersIdle

\* setCSSFontSize(font, s) on the font string of weight, size and family.
FontSet ==
    /\ probe.op = "input"
    /\ probe' = [probe EXCEPT
                   !.op = "setCSSFontSize",
                   !.result = setCSSFontSizeStr(
                                  FontString(probe.weight, probe.size, probe.family),
                                  probe.s)]
    /\ lastOp' = "setCSSFontSize"
    /\ UNCHANGED <<viewport, asm, move, rules, timers, now, other>>

FontNext == FontSet

SpecFont == FontInit /\ [][FontNext]_vars

\* C34: for a font string "weight size family" and a size token s without
\* spaces, the size read from setCSSFontSize(font, s) is s, weight and
\* family are those of font, and setting the font's own size gives font.
C34_FontSizeRoundTrip ==
    probe.op = "setCSSFontSize" =>
        LET font == FontString(probe.weight, probe.size, probe.family)
        IN  /\ getCSSFontSizeStr(probe.result) = probe.s
            /\ probe.result = FontString(probe.weight, probe.s, probe.family)
            /\ setCSSFontSizeStr(font, getCSSFontSizeStr(font)) = font

\* C34 witness: a new size was set in a font whose family holds a space.
C34_Witness ==
    /\ probe.op = "setCSSFontSize"
    /\ probe.family = <<"a", " ", "a">>
    /\ probe.s # probe.size
    /\ getCSSFontSizeStr(probe.result) = probe.s
    /\ Len(StrSplit(probe.result)) = 4

\* C35: add(t) never changes the mode of the timer: it is paused after the
\* call exactly if it was paused before, and stopped exactly if it was
\* stopped before.
C35_AddKeepsMode ==
    [][lastOp' = "add"
         => /\ isPaused(probe'.tm) = isPaused(probe.tm)
            /\ isStopped(probe'.tm) = isStopped(probe.tm)]_vars

\* C36: the elapsed time is never negative, and the timer is never paused
\* and stopped at once.
C36_ElapsedTimeNotNegative ==
    /\ getElapsedTime(probe.tm, now) >= 0
    /\ ~(isPaused(probe.tm) /\ isStopped(probe.tm))

\* The numeric value of the size token of a font string, in centi-px.
FontSizeValue(fontStr) == PxTenths(getCSSFontSize(fontStr)) * 10

\* C37: the text height #createCSSTextParts lays the grid over is the
\* larger of the font size in pixels (the numeric value of the size token,
\* fractional or not) and the measured font height: the last part of a
\* perfect-square grid ends at that height.
C37_GridHeightFromNumericSize ==
    (lastOp = "asmInit" /\ asm.textCount > 0 /\ IsPerfectSquare(asm.textCount))
        => LET size   == FontSizeValue(AsmFont)
               height == getFontHeight(AsmFont)
               H      == IF size > height THEN size ELSE height
           IN  /\ Len(PartClip(asm.textCount - 1)) = 4
               /\ FracEq(PartRect(asm.textCount - 1).b, FracOfInt(H))

\* The class list of the child at position p (from 1) of the container of
\* the animation a: the parts carry their class lists, the ghost was created
\* with the class list [].
ChildClasses(a, p) ==
    IF a.children[p] = "part"
    THEN a.parts[Cardinality({q \in 1..p : a.children[q] = "part"})]
    ELSE {}

\* The rule of #createCSSTextParts for :nth-child(nth) selects the child at
\* position p of the container.
RuleSelectsChild(a, nth, p) ==
    /\ p \in DOMAIN a.children
    /\ p = nth
    /\ "textAssembleAnimation" \in ChildClasses(a, p)

\* The numbers of the part rules in the sheet.
PartRuleNumbers(sheet) ==
    {sheet[k].nth : k \in {j \in 1..Len(sheet) : sheet[j].sel = PartSelector}}

\* C38: after init the container holds its textCount parts followed by the
\* ghost as last child, and no later step changes the children; the part
\* rules are numbered 1..textCount, the rule numbered i + 1 selects the part
\* with index i whenever that part carries the animation class, and no part
\* rule selects another child or the ghost.
C38_PartsThenGhost ==
    /\ [](asm.inited =>
            /\ asm.children = [k \in 1..asm.textCount |-> "part"] \o <<"ghost">>
            /\ Len(asm.parts) = asm.textCount
            /\ PartRuleNumbers(rules) = 1..asm.textCount
            /\ \A i \in 0..(asm.textCount - 1) :
                  "textAssembleAnimation" \in asm.parts[i + 1]
                      => /\ RuleSelectsChild(asm, i + 1, i + 1)
                         /\ ChildClasses(asm, i + 1) = asm.parts[i + 1]
            /\ \A nth \in PartRuleNumbers(rules), p \in DOMAIN asm.children :
                  RuleSelectsChild(asm, nth, p)
                      => /\ asm.children[p] = "part"
                         /\ p = nth)
    /\ [][asm.inited => asm'.children = asm.children]_vars

\* C38 witness: the four-part animation is playing: the children are four
\* parts and the ghost, and rule 3 selects the third child, a part.
C38_Witness ==
    /\ lastOp = "asmPlay"
    /\ asm.children = <<"part", "part", "part", "part", "ghost">>
    /\ RuleSelectsChild(asm, 3, 3)
    /\ ~ \E nth \in PartRuleNumbers(rules) : RuleSelectsChild(asm, nth, 5)

=============================================================================
